---- MODULE Spec2Model ----
(***************************************************************************)
(* A model of photo_importer.py: one invocation of the script is a run.    *)
(* A run loads the serial counter from serial.pk, checks the configuration *)
(* file, and either reports the serial (--get-serial) or walks the inbox,  *)
(* handles every file in enumeration order and finally dumps the counter.  *)
(* Paths, extensions, EXIF values and file names are sequences of one-     *)
(* character strings, so that lower(), splitext(), basename(), strptime()  *)
(* and strftime() are computed the way the library computes them.          *)
(***************************************************************************)
EXTENDS Integers, Sequences, FiniteSets, TLC

(***************************************************************************)
(* Bounds of the model.                                                    *)
(***************************************************************************)
MaxFiles == 2

(***************************************************************************)
(* Text helpers.                                                           *)
(***************************************************************************)
UpperChars ==
  <<"A","B","C","D","E","F","G","H","I","J","K","L","M",
    "N","O","P","Q","R","S","T","U","V","W","X","Y","Z">>

LowerChars ==
  <<"a","b","c","d","e","f","g","h","i","j","k","l","m",
    "n","o","p","q","r","s","t","u","v","w","x","y","z">>

DigitChars == <<"0","1","2","3","4","5","6","7","8","9">>

IsDigit(c) == \E i \in 1..10 : DigitChars[i] = c

DigitVal(c) == (CHOOSE i \in 1..10 : DigitChars[i] = c) - 1

AllDigits(s) == \A i \in 1..Len(s) : IsDigit(s[i])

RECURSIVE ToInt(_)
ToInt(s) ==
  IF Len(s) = 0 THEN 0
  ELSE 10 * ToInt(SubSeq(s, 1, Len(s) - 1)) + DigitVal(s[Len(s)])

\* str(n) of a non-negative integer: decimal, no padding
RECURSIVE ToStr(_)
ToStr(n) ==
  IF n < 10 THEN <<DigitChars[n + 1]>>
  ELSE ToStr(n \div 10) \o <<DigitChars[(n % 10) + 1]>>

\* a %m, %d, %H, %M or %S field of strftime: two digits, zero padded
Pad2(n) == <<DigitChars[(n \div 10) + 1], DigitChars[(n % 10) + 1]>>

\* the year as four zero-padded digits
Pad4(n) == Pad2(n \div 100) \o Pad2(n % 100)

lowerChar(c) ==
  IF \E i \in 1..26 : UpperChars[i] = c
  THEN LowerChars[CHOOSE i \in 1..26 : UpperChars[i] = c]
  ELSE c

\* str.lower()
lower(s) == [i \in 1..Len(s) |-> lowerChar(s[i])]

\* str.rfind(c) with 1-based positions, 0 when c does not occur
rfind(s, c) ==
  IF \E i \in 1..Len(s) : s[i] = c
  THEN CHOOSE i \in 1..Len(s) : s[i] = c /\ \A j \in (i + 1)..Len(s) : s[j] # c
  ELSE 0

\* genericpath._splitext with separator at sepIndex and last dot at dotIndex
splitext_at(p, sepIndex, dotIndex) ==
  IF dotIndex > sepIndex
     /\ \E k \in (sepIndex + 1)..(dotIndex - 1) : p[k] # "."
  THEN SubSeq(p, dotIndex, Len(p))
  ELSE <<>>

\* os.path.splitext(p)[1]: the text from the last dot of the last path
\* component, unless that component has only dots before it
splitext(p) == splitext_at(p, rfind(p, "/"), rfind(p, "."))

\* os.path.basename(p)
basename(p) == SubSeq(p, rfind(p, "/") + 1, Len(p))

\* os.path.join(a, b) and f'{a}/{b}' for a relative b
join(a, b) == a \o <<"/">> \o b

\* every directory makedirs(d) makes sure of: d and its ancestors
Ancestors(d) ==
  {SubSeq(d, 1, k - 1) : k \in {i \in 1..Len(d) : d[i] = "/"}} \cup {d}

(***************************************************************************)
(* Configuration (lines 60-62 and 87-91).  The five directories come from  *)
(* importer.ini; the model fixes one value for each.                       *)
(***************************************************************************)
valid_extensions ==
  { <<".","t","i","f">>, <<".","c","r","2">>, <<".","j","p","g">>, <<".","j","p","e","g">>, <<".","p","n","g">> }

video_extensions == { <<".","m","p","4">>, <<".","m","k","v">> }

p_inbox == <<"i","n">>

pre_process == <<"p","r","e">>

raw_path == <<"r","a","w">>

reject_path == <<"r","e","j","e","c","t">>

video_path == <<"v","i","d","e","o">>

nodate == <<"n","o","d","a","t","e">>

dot_cr2 == <<".","c","r","2">>

dot_jpg == <<".","j","p","g">>

(***************************************************************************)
(* The files that may lie in the inbox: the path os.walk yields for each   *)
(* and what exifread finds in it ("tag": the text of DateTimeOriginal;     *)
(* "notag": no such tag; "ioerror": the file cannot be opened or read).    *)
(***************************************************************************)
Catalogue ==
  <<
    [path |-> <<"i","n","/","a","/","I","M","G",".","C","R","2">>,
     exif |-> [kind |-> "tag",
              val |-> <<"2","0","2","3",":","0","4",":","0","5"," ","1","1",":","2","2",":","3","3">>]],
    [path |-> <<"i","n","/","a","/","R","2",".","c","r","2">>,
     exif |-> [kind |-> "notag",
              val |-> <<>>]],
    [path |-> <<"i","n","/","a","/","p",".","j","p","g">>,
     exif |-> [kind |-> "tag",
              val |-> <<"2","0","2","3",":","0","4",":","0","5"," ","1","1",":","2","2",":","3","3">>]],
    [path |-> <<"i","n","/","b","/","q",".","J","P","E","G">>,
     exif |-> [kind |-> "tag",
              val |-> <<"1","9","9","9",":","1",":","2"," ","3",":","4",":","5">>]],
    [path |-> <<"i","n","/","a","/","x",".","t","x","t">>,
     exif |-> [kind |-> "notag",
              val |-> <<>>]],
    [path |-> <<"i","n","/","b","/","x",".","t","x","t">>,
     exif |-> [kind |-> "notag",
              val |-> <<>>]],
    [path |-> <<"i","n","/","a","/","v",".","M","P","4">>,
     exif |-> [kind |-> "notag",
              val |-> <<>>]],
    [path |-> <<"i","n","/","a",".","b","/","R","E","A","D","M","E">>,
     exif |-> [kind |-> "ioerror",
              val |-> <<>>]],
    [path |-> <<"i","n","/","b","/","t",".","t","i","f">>,
     exif |-> [kind |-> "tag",
              val |-> <<"0","0","0","0",":","0","0",":","0","0"," ","0","0",":","0","0",":","0","0">>]],
    [path |-> <<"i","n","/","b","/","o",".","p","n","g">>,
     exif |-> [kind |-> "tag",
              val |-> <<"0","9","9","9",":","0","1",":","0","2"," ","0","3",":","0","4",":","0","5">>]],
    [path |-> <<"i","n","/","b","/","m",".","m","k","v">>,
     exif |-> [kind |-> "notag",
              val |-> <<>>]],
    [path |-> <<"i","n","/","a","/",".","c","r","2">>,
     exif |-> [kind |-> "tag",
              val |-> <<"2","0","2","3",":","0","4",":","0","5"," ","1","1",":","2","2",":","3","3">>]],
    [path |-> <<"i","n","/","b","/","d",".","t","i","f">>,
     exif |-> [kind |-> "tag",
              val |-> <<"2","0","2","3",":","0","2",":","3","0"," ","1","0",":","0","0",":","0","0">>]]
  >>

FileIds == 1..Len(Catalogue)

InitSerials == {6, 8}

Roots == {pre_process, raw_path, reject_path, video_path}

InitDirs == { {}, Roots, {raw_path, pre_process} }

(***************************************************************************)
(* datetime.strptime(text, '%Y:%m:%d %H:%M:%S') and strftime.             *)
(***************************************************************************)
NoDate == [ok |-> FALSE, Y |-> 0, m |-> 0, d |-> 0, H |-> 0, M |-> 0, S |-> 0]

IsLeap(y) == (y % 4 = 0 /\ y % 100 # 0) \/ y % 400 = 0

DaysIn(y, m) ==
  IF m = 2 THEN (IF IsLeap(y) THEN 29 ELSE 28)
  ELSE IF m \in {4, 6, 9, 11} THEN 30 ELSE 31

\* the characters between the fields of '%Y:%m:%d %H:%M:%S'
Separators == <<":", ":", " ", ":", ":">>

\* the place of the k-th separator when field i after the year has c[i]
\* digits (one or two)
SepPos(c, k) == 3 + (2 * k) + Cardinality({i \in 1..(k - 1) : c[i] = 2})

\* the k-th field after the year
Field(s, c, k) ==
  SubSeq(s, SepPos(c, k) + 1,
         IF k = 5 THEN Len(s) ELSE SepPos(c, k + 1) - 1)

\* The ways to cut s into YYYY:m:d H:M:S with fields of one or two digits
\* (the year: exactly four), the whole text consumed.
FieldCuts(s) ==
  { c \in [1..5 -> {1, 2}] :
      /\ Len(s) = SepPos(c, 5) + c[5]
      /\ \A k \in 1..5 : s[SepPos(c, k)] = Separators[k]
      /\ AllDigits(SubSeq(s, 1, 4))
      /\ \A k \in 1..5 : AllDigits(Field(s, c, k)) }

\* the fields of s as numbers
Parsed(s, c) ==
  [ok |-> TRUE,
   Y |-> ToInt(SubSeq(s, 1, 4)),
   m |-> ToInt(Field(s, c, 1)),
   d |-> ToInt(Field(s, c, 2)),
   H |-> ToInt(Field(s, c, 3)),
   M |-> ToInt(Field(s, c, 4)),
   S |-> ToInt(Field(s, c, 5))]

\* ValueError unless the fields are in range and the day is one of the month
Validated(dt) ==
  IF /\ dt.Y >= 1
     /\ dt.m \in 1..12
     /\ dt.d >= 1 /\ dt.d <= DaysIn(dt.Y, dt.m)
     /\ dt.H <= 23 /\ dt.M <= 59 /\ dt.S <= 59
  THEN dt
  ELSE NoDate

\* The parsed timestamp, or NoDate where strptime raises ValueError: the
\* text does not match, a field is out of range, or the day is not a day
\* of the month.  (The blank of the format is taken as one blank.)
strptime(s) ==
  IF Len(s) < 14 \/ FieldCuts(s) = {} THEN NoDate
  ELSE Validated(Parsed(s, CHOOSE c \in FieldCuts(s) : TRUE))

\* get_date_taken(pic) followed by strptime, inside the try of line 147:
\* any exception leaves date_taken = None
date_taken_of(exif) ==
  IF exif.kind = "tag" THEN strptime(exif.val) ELSE NoDate

\* strftime('%Y'): four digits from year 1000 on; below that the C
\* library decides whether the year is zero padded (pad)
strftime_Y(dt, pad) == IF dt.Y >= 1000 \/ pad THEN Pad4(dt.Y) ELSE ToStr(dt.Y)

strftime_m_bare(dt) == ToStr(dt.m)

\* strftime('%m')
strftime_m(dt) == Pad2(dt.m)

\* strftime("%Y%m%d_%H%M%S")
strftime_stamp(dt, pad) ==
  strftime_Y(dt, pad) \o Pad2(dt.m) \o Pad2(dt.d) \o <<"_">>
    \o Pad2(dt.H) \o Pad2(dt.M) \o Pad2(dt.S)

(***************************************************************************)
(* Classification and planning (lines 131-165).                            *)
(***************************************************************************)
extension_as_written(pic) == splitext(pic)

\* extension = os.path.splitext(pic)[1].lower()
extension_of(pic) == lower(splitext(pic))

\* the branch of lines 133-145 an extension takes
classify(extension) ==
  IF extension \notin valid_extensions
  THEN (IF extension \in video_extensions THEN "Video" ELSE "Unsupported")
  ELSE (IF extension = dot_cr2 THEN "RawPhoto" ELSE "ProcessedPhoto")

storage_path(extension) ==
  IF extension = dot_cr2 THEN raw_path ELSE pre_process

\* new_filepath, new_name and new_jname of lines 150-165 for a date_taken
plan_for(date_taken, extension, serial, pad) ==
  IF date_taken.ok
  THEN [date_taken |-> date_taken,
        new_filepath |->
          join(join(storage_path(extension), strftime_Y(date_taken, pad)),
               strftime_m(date_taken)),
        new_name |->
          strftime_stamp(date_taken, pad) \o <<"_">> \o ToStr(serial)
            \o extension,
        new_jname |->
          strftime_stamp(date_taken, pad) \o <<"_">> \o ToStr(serial)
            \o dot_jpg]
  ELSE [date_taken |-> date_taken,
        new_filepath |-> join(storage_path(extension), nodate),
        new_name |-> ToStr(serial) \o extension,
        new_jname |-> ToStr(serial) \o dot_jpg]

\* lines 147-165
plan(extension, exif, serial, pad) ==
  plan_for(date_taken_of(exif), extension, serial, pad)

(***************************************************************************)
(* The state.                                                              *)
(***************************************************************************)
VARIABLES
  pk,            \* serial.pk: Absent, Unreadable or the pickled integer
  inbox,         \* the files under p_inbox (indices into Catalogue)
  fs,            \* the files outside the inbox: path -> file
  dirs,          \* the directories that exist outside the inbox
  calls,         \* the darktable-cli processes started so far
  pc,            \* "idle" between runs, "config", "main", "loop" within one
  args,          \* the parsed command line of the current (or last) run
  serial,        \* the global serial
  reject_count,  \* the global reject_count
  allpics,       \* the global allpics
  idx,           \* the position of the for loop of line 129 in allpics
  exit,          \* how the last run ended, "running" during a run
  error,         \* the exception that ended the last run, "" if none
  arrived,       \* history: the files ever put into the inbox
  start,         \* history: pk, inbox, fs, dirs, calls, serial at run start
  moved,         \* history: the moves of the current run
  prev,          \* history: the run before the current one, if it crashed
  everMax,       \* history: the largest value serial.pk ever held
  hwm            \* history: the largest value since it was last unreadable

vars ==
  <<pk, inbox, fs, dirs, calls, pc, args, serial, reject_count, allpics, idx,
    exit, error, arrived, error, arrived, start, moved, prev, everMax, hwm>>

Absent == 0 - 1

Unreadable == 0 - 2

EmptyFs == [p \in {} |-> 0]

Max(a, b) == IF a >= b THEN a ELSE b

Snapshot(s) ==
  [pk |-> pk, inbox |-> inbox, fs |-> fs, dirs |-> dirs, calls |-> calls,
   serial |-> s]

NoRun ==
  [exit |-> "none", dryrun |-> FALSE, serial |-> 0, pk |-> Absent,
   moved |-> {}]

\* Before the first run: serial.pk absent or left by earlier runs with a
\* value of P, at most MaxFiles of the files of F in the inbox, the
\* destination roots all there, all absent, or only those of the photos.
InitOf(F, P) ==
  /\ pk \in {Absent} \cup P
  /\ inbox \in {f \in SUBSET F : Cardinality(f) <= MaxFiles}
  /\ fs = EmptyFs
  /\ dirs \in InitDirs
  /\ calls = {}
  /\ pc = "idle"
  /\ args = [dryrun |-> FALSE, get_serial |-> FALSE, config |-> TRUE]
  /\ serial = 0
  /\ reject_count = 0
  /\ allpics = <<>>
  /\ idx = 1
  /\ exit = "none"
  /\ error = ""
  /\ arrived = inbox
  /\ start = Snapshot(0)
  /\ moved = {}
  /\ prev = NoRun
  /\ everMax = Max(pk, 0)
  /\ hwm = Max(pk, 0)

Init == InitOf(FileIds, InitSerials)

\* the files of the runs that follow one another
RunFiles == {1, 2, 5, 6}

InitRuns == InitOf(RunFiles, {6})

(***************************************************************************)
(* Start of a run (lines 38-79): the arguments are parsed and the serial   *)
(* is loaded; any failure to open or unpickle serial.pk gives 0.           *)
(***************************************************************************)
load_zero(pkv) == 0

load(pkv) == IF pkv >= 0 THEN pkv ELSE 0

Startup ==
  /\ pc = "idle"
  /\ \E d \in BOOLEAN, g \in BOOLEAN, c \in BOOLEAN :
       args' = [dryrun |-> d, get_serial |-> g, config |-> c]
  /\ serial' = load(pk)
  /\ reject_count' = 0
  /\ allpics' = <<>>
  /\ idx' = 1
  /\ pc' = "config"
  /\ exit' = "running"
  /\ error' = ""
  /\ start' = Snapshot(load(pk))
  /\ moved' = {}
  /\ prev' = IF exit = "crash"
             THEN [exit |-> exit, dryrun |-> args.dryrun,
                   serial |-> start.serial, pk |-> start.pk,
                   moved |-> moved]
             ELSE NoRun
  /\ UNCHANGED <<pk, inbox, fs, dirs, calls, arrived, everMax, hwm>>

\* lines 82-84: without importer.ini the run ends with status 1
ConfigMissing ==
  /\ pc = "config"
  /\ ~args.config
  /\ pc' = "idle"
  /\ exit' = "noconfig"
  /\ UNCHANGED <<pk, inbox, fs, dirs, calls, args, serial, reject_count,
                 allpics, idx, error, arrived, start, moved, prev, everMax, hwm>>

\* lines 85-91
ConfigRead ==
  /\ pc = "config"
  /\ args.config
  /\ pc' = "main"
  /\ UNCHANGED <<pk, inbox, fs, dirs, calls, args, serial, reject_count,
                 allpics, idx, exit, error, arrived, start, moved, prev, everMax, hwm>>

never_short_circuit(a) == FALSE

\* line 195
short_circuit(a) == a.get_serial

\* lines 195-197: report and exit
GetSerial ==
  /\ pc = "main"
  /\ short_circuit(args)
  /\ pc' = "idle"
  /\ exit' = "getserial"
  /\ UNCHANGED <<pk, inbox, fs, dirs, calls, args, serial, reject_count,
                 allpics, idx, error, arrived, start, moved, prev, everMax, hwm>>

\* the orders in which os.walk may yield the files of a set
Orders(S) ==
  { q \in [1..Cardinality(S) -> S] :
      \A i, j \in 1..Cardinality(S) : i # j => q[i] # q[j] }

\* lines 126-128: allpics is filled from the walk of the inbox
Walk ==
  /\ pc = "main"
  /\ ~short_circuit(args)
  /\ allpics' \in Orders(inbox)
  /\ idx' = 1
  /\ pc' = "loop"
  /\ UNCHANGED <<pk, inbox, fs, dirs, calls, args, serial, reject_count,
                 exit, error, arrived, start, moved, prev, everMax, hwm>>

(***************************************************************************)
(* The file operations.  A world w is the file system as one loop          *)
(* iteration changes it; w.raised is set once an exception has been        *)
(* raised, and every later statement of the iteration is then skipped.     *)
(* fail names the operation that fails in this iteration, if any.          *)
(***************************************************************************)
Failures == {"none", "makedirs", "move", "run"}

World ==
  [inbox |-> inbox, fs |-> fs, dirs |-> dirs, calls |-> calls,
   moved |-> moved, reject_count |-> reject_count, raised |-> ""]

\* os.makedirs(d)
makedirs(w, d, fail) ==
  IF w.raised # "" THEN w
  ELSE IF fail = "makedirs" THEN [w EXCEPT !.raised = "OSError:makedirs"]
  ELSE [w EXCEPT !.dirs = @ \cup Ancestors(d)]

\* shutil.move(pic, dst) of a file of the inbox: a rename, which replaces
\* a file already at dst
move(w, id, dst, s, fail) ==
  IF w.raised # "" THEN w
  ELSE IF fail = "move" THEN [w EXCEPT !.raised = "OSError:move"]
  ELSE [w EXCEPT !.inbox = @ \ {id},
                 !.fs = (dst :> id) @@ @,
                 !.moved = @ \cup {[id |-> id, dst |-> dst, serial |-> s]}]

\* subprocess.run(args=['darktable-cli', src, dst]): raises when the
\* program cannot be started; its exit status is not looked at
run(w, src, dst, fail) ==
  IF w.raised # "" THEN w
  ELSE IF fail = "run" THEN [w EXCEPT !.raised = "OSError:run"]
  ELSE [w EXCEPT !.calls = @ \cup {[src |-> src, dst |-> dst]}]

\* global reject_count; reject_count += 1
count_reject(w) == [w EXCEPT !.reject_count = @ + 1]

\* if not os.path.exists(d): os.makedirs(d)
ensure_dir(w, d, fail) ==
  IF d \notin w.dirs THEN makedirs(w, d, fail) ELSE w

\* lines 105-109 and 117-121: the move to d under the basename, unless
\* this is a dry run
move_to(w, id, s, a, fail, d) ==
  IF a.dryrun THEN w
  ELSE move(w, id, join(d, basename(Catalogue[id].path)), s, fail)

\* lines 99-109
reject(w, id, s, a, fail) ==
  move_to(ensure_dir(count_reject(w), reject_path, fail), id, s, a, fail,
          reject_path)

\* lines 111-121
reject_video(w, id, s, a, fail) ==
  move_to(ensure_dir(count_reject(w), video_path, fail), id, s, a, fail,
          video_path)

\* lines 187-190.  With date_taken = None the argument
\* datetime.strftime(date_taken, '%Y') raises TypeError before the process
\* is started.
run_darktable(w, p, fail, pad) ==
  IF w.raised # "" THEN w
  ELSE IF ~p.date_taken.ok THEN [w EXCEPT !.raised = "TypeError"]
  ELSE run(w, join(p.new_filepath, p.new_name),
           join(join(pre_process, strftime_Y(p.date_taken, pad)),
                p.new_jname),
           fail)

\* lines 179-190: the jpg of a raw file
make_jpg(w, p, a, fail, pad) ==
  IF a.dryrun THEN w
  ELSE run_darktable(ensure_dir(w, raw_path, fail), p, fail, pad)

\* lines 168-172
make_filepath(w, p, a, fail) ==
  IF p.new_filepath \notin w.dirs /\ ~a.dryrun
  THEN makedirs(w, p.new_filepath, fail)
  ELSE w

\* lines 173-177
move_pic(w, id, p, s, a, fail) ==
  IF ~a.dryrun
  THEN move(w, id, join(p.new_filepath, p.new_name), s, fail)
  ELSE w

\* lines 167-190 for a planned file
apply(w, id, s, a, fail, pad, extension, p) ==
  IF extension = dot_cr2
  THEN make_jpg(move_pic(make_filepath(w, p, a, fail), id, p, s, a, fail),
                p, a, fail, pad)
  ELSE move_pic(make_filepath(w, p, a, fail), id, p, s, a, fail)

\* lines 142-190: an importable file
import(w, id, s, a, fail, pad, extension) ==
  apply(w, id, s, a, fail, pad, extension,
        plan(extension, Catalogue[id].exif, s, pad))

\* lines 133-190 for the extension of the pic
dispatch(w, id, s, a, fail, pad, extension) ==
  IF classify(extension) = "Video" THEN reject_video(w, id, s, a, fail)
  ELSE IF classify(extension) = "Unsupported" THEN reject(w, id, s, a, fail)
  ELSE import(w, id, s, a, fail, pad, extension)

\* lines 131-190: the body of the loop for one pic, serial already s
loop_body(w, id, s, a, fail, pad) ==
  dispatch(w, id, s, a, fail, pad, extension_of(Catalogue[id].path))

next_serial_skip(s) == s + 2

\* line 130
next_serial(s) == s + 1

\* the state after an iteration that counted to s and left the world w
after_body(s, w) ==
  /\ serial' = s
  /\ inbox' = w.inbox
  /\ fs' = w.fs
  /\ dirs' = w.dirs
  /\ calls' = w.calls
  /\ moved' = w.moved
  /\ reject_count' = w.reject_count
  /\ error' = w.raised
  /\ IF w.raised # ""
     THEN pc' = "idle" /\ exit' = "crash" /\ idx' = idx
     ELSE pc' = "loop" /\ exit' = exit /\ idx' = idx + 1

\* One iteration of the loop of line 129.  An exception ends the run.
ProcessPic ==
  /\ pc = "loop"
  /\ idx <= Len(allpics)
  /\ \E fail \in Failures, pad \in BOOLEAN :
       after_body(next_serial(serial),
                  loop_body(World, allpics[idx], next_serial(serial), args,
                            fail, pad))
  /\ UNCHANGED <<pk, args, allpics, arrived, start, prev, everMax, hwm>>

always_persist(a) == TRUE

\* line 199
should_persist(a) == ~a.dryrun

dumped_count(s) == s - start.serial

\* what a later pickle.load reads back after pickle.dump(s, f) of line 201
dumped(s) == s

\* lines 199-201: open(serial_file, 'wb') empties the file, pickle.dump
\* writes the serial.
Persist ==
  /\ pc = "loop"
  /\ idx > Len(allpics)
  /\ should_persist(args)
  /\ pk' = dumped(serial)
  /\ everMax' = Max(everMax, dumped(serial))
  /\ hwm' = Max(hwm, dumped(serial))
  /\ pc' = "idle"
  /\ exit' = "ok"
  /\ UNCHANGED <<inbox, fs, dirs, calls, args, serial, reject_count, allpics,
                 idx, error, arrived, start, moved, prev>>

\* lines 199-201 when the write fails after open() has emptied the file
\* (a full disk, the process killed): serial.pk is left without a pickle
PersistFails ==
  /\ pc = "loop"
  /\ idx > Len(allpics)
  /\ should_persist(args)
  /\ pk' = Unreadable
  /\ hwm' = 0
  /\ pc' = "idle"
  /\ exit' = "persistfail"
  /\ error' = "OSError:dump"
  /\ UNCHANGED <<inbox, fs, dirs, calls, args, serial, reject_count, allpics,
                 idx, arrived, start, moved, prev, everMax>>

\* lines 202-203
SkipPersist ==
  /\ pc = "loop"
  /\ idx > Len(allpics)
  /\ ~should_persist(args)
  /\ pc' = "idle"
  /\ exit' = "ok"
  /\ UNCHANGED <<pk, inbox, fs, dirs, calls, args, serial, reject_count,
                 allpics, idx, error, arrived, start, moved, prev, everMax, hwm>>

\* the first run after Init
FirstStartup ==
  /\ exit = "none"
  /\ Startup

\* One run of the script.
Next ==
  \/ FirstStartup
  \/ ConfigMissing
  \/ ConfigRead
  \/ GetSerial
  \/ Walk
  \/ ProcessPic
  \/ Persist
  \/ PersistFails
  \/ SkipPersist

Spec == Init /\ [][Next]_vars

\* Between two runs a new file is put into the inbox.
AddFile ==
  /\ pc = "idle"
  /\ Cardinality(arrived) < MaxFiles
  /\ \E f \in RunFiles \ arrived :
       /\ inbox' = inbox \cup {f}
       /\ arrived' = arrived \cup {f}
  /\ UNCHANGED <<pk, fs, dirs, calls, pc, args, serial, reject_count, allpics,
                 idx, exit, error, start, moved, prev, everMax, hwm>>

\* Any number of runs, one after the other, over what the earlier ones left.
NextRuns ==
  \/ Startup
  \/ AddFile
  \/ ConfigMissing
  \/ ConfigRead
  \/ GetSerial
  \/ Walk
  \/ ProcessPic
  \/ Persist
  \/ PersistFails
  \/ SkipPersist

SpecRuns == InitRuns /\ [][NextRuns]_vars

(***************************************************************************)
(* What the claims are checked against: for every file of Catalogue, the   *)
(* destination written out by hand.                                        *)
(***************************************************************************)
ExpectedRoot ==
  <<raw_path,
    raw_path,
    pre_process,
    pre_process,
    reject_path,
    reject_path,
    video_path,
    reject_path,
    pre_process,
    pre_process,
    video_path,
    reject_path,
    pre_process>>

ExpectedDir ==
  <<<<"r","a","w","/","2","0","2","3","/","0","4">>,
    <<"r","a","w","/","n","o","d","a","t","e">>,
    <<"p","r","e","/","2","0","2","3","/","0","4">>,
    <<"p","r","e","/","1","9","9","9","/","0","1">>,
    <<>>,
    <<>>,
    <<>>,
    <<>>,
    <<"p","r","e","/","n","o","d","a","t","e">>,
    <<"p","r","e","/","0","9","9","9","/","0","1">>,
    <<>>,
    <<>>,
    <<"p","r","e","/","n","o","d","a","t","e">>>>

ExpectedStamp ==
  <<<<"2","0","2","3","0","4","0","5","_","1","1","2","2","3","3">>,
    <<>>,
    <<"2","0","2","3","0","4","0","5","_","1","1","2","2","3","3">>,
    <<"1","9","9","9","0","1","0","2","_","0","3","0","4","0","5">>,
    <<>>,
    <<>>,
    <<>>,
    <<>>,
    <<>>,
    <<"0","9","9","9","0","1","0","2","_","0","3","0","4","0","5">>,
    <<>>,
    <<>>,
    <<>>>>

ExpectedExt ==
  <<<<".","c","r","2">>,
    <<".","c","r","2">>,
    <<".","j","p","g">>,
    <<".","j","p","e","g">>,
    <<>>,
    <<>>,
    <<>>,
    <<>>,
    <<".","t","i","f">>,
    <<".","p","n","g">>,
    <<>>,
    <<>>,
    <<".","t","i","f">>>>

Importable(id) == ExpectedRoot[id] \in {raw_path, pre_process}

ExpectedName(id, n) ==
  IF ExpectedStamp[id] = <<>>
  THEN ToStr(n) \o ExpectedExt[id]
  ELSE ExpectedStamp[id] \o <<"_">> \o ToStr(n) \o ExpectedExt[id]

\* p is a path below the directory d
HasPrefix(p, d) ==
  /\ Len(p) > Len(d) + 1
  /\ SubSeq(p, 1, Len(d)) = d
  /\ p[Len(d) + 1] = "/"

\* the value a run finds in serial.pk
Readback(v) == IF v >= 0 THEN v ELSE 0

\* the place of a file in allpics
Pos(id) == CHOOSE j \in 1..Len(allpics) : allpics[j] = id

Started == exit # "none"

Unchanged ==
  /\ inbox = start.inbox
  /\ fs = start.fs
  /\ dirs = start.dirs
  /\ calls = start.calls

\* C1: a run with --dryrun creates no directory, moves no file and starts
\* no darktable-cli, whatever the inbox holds and whichever destination
\* directories exist.
C1_DryRunTouchesNothing == (Started /\ args.dryrun) => Unchanged

\* C2: serial.pk is written only at the end of a run that went through the
\* whole list: a dry run leaves it as it was, a run that has not completed
\* leaves it as it was, and a completed run without --dryrun over N files
\* leaves the loaded value plus N.
C2_PersistedOnlyAtEnd ==
  /\ (Started /\ args.dryrun) => pk = start.pk
  /\ exit \in {"running", "crash", "noconfig", "getserial"} => pk = start.pk
  /\ (exit = "ok" /\ ~args.dryrun) =>
       /\ Len(allpics) = Cardinality(start.inbox)
       /\ pk = Readback(start.pk) + Cardinality(start.inbox)

C2_Witness ==
  /\ exit = "ok"
  /\ ~args.dryrun
  /\ Cardinality(start.inbox) = 2
  /\ start.pk = 6
  /\ pk = 8

C3_Counted ==
  /\ Started => start.serial = Readback(start.pk)
  /\ pc = "loop" => serial = start.serial + (idx - 1)
  /\ exit = "crash" => serial = start.serial + idx
  /\ exit \in {"ok", "persistfail"} =>
       serial = start.serial + Cardinality(start.inbox)

\* C3: the serial in memory goes up by one for every file of the list,
\* imported, rejected or routed as video: after k files it is the loaded
\* value plus k (the file being handled when the run fails included),
\* after all N the loaded value plus N, and it never goes down in a run.
C3_SerialOncePerFile ==
  /\ []C3_Counted
  /\ [][pc # "idle" => serial' >= serial]_vars

C3_Witness ==
  /\ pc = "loop"
  /\ idx = 3
  /\ ~args.dryrun
  /\ reject_count = 1
  /\ \E m \in moved : Importable(m.id) /\ ExpectedStamp[m.id] = <<>>
  /\ serial = start.serial + 2

C5_GetSerialTouchesNothing ==
  (Started /\ args.get_serial) =>
    /\ Unchanged
    /\ pk = start.pk
    /\ pc # "loop"
    /\ allpics = <<>>
    /\ moved = {}
    /\ reject_count = 0
    /\ serial = Readback(start.pk)

C5_Witness ==
  /\ exit = "getserial"
  /\ args.dryrun
  /\ Cardinality(inbox) = 2
  /\ dirs = {}
  /\ serial = 8

\* C6: a run ends early only when a file operation or the start of
\* darktable-cli fails; a file without a usable timestamp, an unsupported
\* file or a video never ends it.
C6_RecoverableNeverAborts ==
  exit = "crash" =>
    error \in {"OSError:makedirs", "OSError:move", "OSError:run"}

\* C7: a file goes where its lowercased extension says, raw root for .cr2,
\* pre-process root for the other photo extensions, video directory for
\* the video extensions, reject directory for everything else, and to one
\* place only; the reject counter counts the videos and the unsupported.
C7_RoutedByExtension ==
  /\ \A m \in moved : HasPrefix(m.dst, ExpectedRoot[m.id])
  /\ \A m, n \in moved : m.id = n.id => m = n
  /\ (exit = "ok" /\ ~args.dryrun) => {m.id : m \in moved} = start.inbox
  /\ pc = "loop" =>
       reject_count =
         Cardinality({j \in 1..(idx - 1) : ~Importable(allpics[j])})

C7_Witness ==
  /\ exit = "ok"
  /\ \E m \in moved : m.id = 1 /\ HasPrefix(m.dst, raw_path)
  /\ \E m \in moved : m.id = 7 /\ HasPrefix(m.dst, video_path)

C8_Examples ==
  \A m \in moved :
    /\ (m.id = 3 /\ m.serial = 7) =>
         m.dst = <<"p","r","e","/","2","0","2","3","/","0","4","/","2","0","2","3","0","4","0","5","_","1","1","2","2","3","3","_","7",".","j","p","g">>
    /\ (m.id = 2 /\ m.serial = 9) =>
         m.dst = <<"r","a","w","/","n","o","d","a","t","e","/","9",".","c","r","2">>
    /\ (m.id = 2 /\ m.serial = 10) =>
         m.dst = <<"r","a","w","/","n","o","d","a","t","e","/","1","0",".","c","r","2">>

C8_SerialUsed ==
  \A m \in moved : m.serial = start.serial + Pos(m.id)

\* C8 as stated: every imported file lies at <root>/<4-digit year>/<2-digit
\* month>/<YYYYMMDD_HHMMSS>_<serial><ext>, or at <root>/nodate/<serial><ext>
\* without a timestamp, the serial being the counter after the file's
\* increment.
C8_DestinationFormat ==
  /\ C8_Examples
  /\ C8_SerialUsed
  /\ \A m \in moved :
       Importable(m.id) =>
         m.dst = join(ExpectedDir[m.id], ExpectedName(m.id, m.serial))

\* the destination of the file of year 0999 where strftime does not pad
UnpaddedOld(n) ==
  <<"p","r","e","/","9","9","9","/","0","1","/","9","9","9","0","1","0","2","_","0","3","0","4","0","5","_">> \o ToStr(n) \o ExpectedExt[10]

\* C8, amended: the same for capture years from 1000 on; for an earlier
\* year the year is written as the platform's strftime('%Y') writes it,
\* with or without leading zeros.
C8_DestinationFormatFrom1000 ==
  /\ C8_Examples
  /\ C8_SerialUsed
  /\ \A m \in moved :
       Importable(m.id) =>
         \/ m.dst = join(ExpectedDir[m.id], ExpectedName(m.id, m.serial))
         \/ m.id = 10 /\ m.dst = UnpaddedOld(m.serial)

C8_Witness ==
  /\ \E m \in moved :
       /\ m.id = 3
       /\ m.serial = 7
       /\ m.dst = <<"p","r","e","/","2","0","2","3","/","0","4","/","2","0","2","3","0","4","0","5","_","1","1","2","2","3","3","_","7",".","j","p","g">>
  /\ \E m \in moved : m.id = 4

C9_AfterCrash ==
  (exit = "crash" /\ ~args.dryrun) =>
    /\ pk = start.pk
    /\ \A m \in moved :
         /\ m.id \notin inbox
         /\ m.dst \in DOMAIN fs
         /\ fs[m.dst] \in {n.id : n \in {x \in moved : x.dst = m.dst}}
    /\ \A j \in (idx + 1)..Len(allpics) :
         /\ allpics[j] \in inbox
         /\ \A m \in moved : m.id # allpics[j]
    /\ error \in {"OSError:run", "TypeError"} =>
         \E m \in moved : m.id = allpics[idx] /\ fs[m.dst] = m.id

C9_NextRun ==
  (prev.exit = "crash" /\ ~prev.dryrun) =>
    /\ start.pk = prev.pk
    /\ start.serial = Readback(prev.pk)
    /\ \A o \in prev.moved : o.serial > start.serial
    /\ \A m \in moved : m.serial > start.serial

\* C9: a run without --dryrun that fails while handling a file leaves
\* serial.pk as it was, takes back none of its moves (the raw file moved
\* before its conversion failed included) and touches no later file; the
\* next run starts from the old value of serial.pk, so that the numbers
\* the failed run put into file names are issued again.
C9_CrashLeavesPartialState ==
  /\ [](C9_AfterCrash /\ C9_NextRun)
  /\ [][(pc = "loop" /\ exit' = "crash") =>
          \A m \in moved : m.dst \in DOMAIN fs' /\ fs'[m.dst] = fs[m.dst]]_vars

C9_Witness ==
  /\ prev.exit = "crash"
  /\ ~prev.dryrun
  /\ \E m \in moved, o \in prev.moved :
       /\ m.serial = o.serial
       /\ m.id # o.id
       /\ Importable(m.id)
       /\ Importable(o.id)

\* C10: after a completed run without --dryrun every file that was in the
\* inbox lies at exactly one destination, and no two files were moved to
\* the same path.
C10_NoFileLost ==
  (exit = "ok" /\ ~args.dryrun) =>
    /\ \A id \in start.inbox :
         Cardinality({p \in DOMAIN fs : fs[p] = id}) = 1
    /\ \A m, n \in moved : m.dst = n.dst => m = n

====
